---- MODULE Spec2Model ----
(***************************************************************************)
(* Link-graph auditor of audit.py: Config, Auditor.scan_files,             *)
(* parse_content, check_link_resolution, check_internal_link,              *)
(* check_external_links_async, analyze_graph and print_report.             *)
(*                                                                         *)
(* Python strings are sequences of one-character strings.  A pathlib.Path  *)
(* under root_dir is the sequence of its components below root_dir; its    *)
(* str() is AbsStr.                                                        *)
(***************************************************************************)
EXTENDS Integers, Sequences, FiniteSets, TLC

(***************************************************************************)
(* str methods                                                             *)
(***************************************************************************)
startswith(s, p) ==
  /\ Len(p) <= Len(s)
  /\ SubSeq(s, 1, Len(p)) = p

endswith(s, p) ==
  /\ Len(p) <= Len(s)
  /\ SubSeq(s, Len(s) - Len(p) + 1, Len(s)) = p

\* s.startswith(tuple_of_prefixes)
startswith_any(s, ps) == \E p \in ps : startswith(s, p)

\* s.find(c): 0-based index of the first c in s, -1 when absent
find(s, c) ==
  LET hits == {i \in 1..Len(s) : s[i] = c}
  IN  IF hits = {} THEN -1
      ELSE (CHOOSE i \in hits : \A j \in hits : i <= j) - 1

\* s.split(c)[0]
split_first(s, c) ==
  LET i == find(s, c)
  IN  IF i = -1 THEN s ELSE SubSeq(s, 1, i)

\* s[n:]
slice_from(s, n) == SubSeq(s, n + 1, Len(s))

RECURSIVE lstrip(_, _)
lstrip(s, c) ==
  IF s # <<>> /\ Head(s) = c THEN lstrip(Tail(s), c) ELSE s

RECURSIVE rstrip(_, _)
rstrip(s, c) ==
  IF s # <<>> /\ s[Len(s)] = c THEN rstrip(SubSeq(s, 1, Len(s) - 1), c) ELSE s

\* sub in s
contains(s, sub) ==
  \E i \in 0..(Len(s) - Len(sub)) : SubSeq(s, i + 1, i + Len(sub)) = sub

LowerLetters ==
  <<"a", "b", "c", "d", "e", "f", "g", "h", "i", "j", "k", "l", "m",
    "n", "o", "p", "q", "r", "s", "t", "u", "v", "w", "x", "y", "z">>

UpperLetters ==
  <<"A", "B", "C", "D", "E", "F", "G", "H", "I", "J", "K", "L", "M",
    "N", "O", "P", "Q", "R", "S", "T", "U", "V", "W", "X", "Y", "Z">>

isalpha(c) ==
  \E i \in 1..Len(LowerLetters) : c = LowerLetters[i] \/ c = UpperLetters[i]

lower_char(c) ==
  IF \E i \in 1..Len(UpperLetters) : c = UpperLetters[i]
    THEN LowerLetters[CHOOSE i \in 1..Len(UpperLetters) : c = UpperLetters[i]]
    ELSE c

lower(s) == [i \in 1..Len(s) |-> lower_char(s[i])]

(***************************************************************************)
(* urllib.parse.urlparse, as far as check_link_resolution uses it: the     *)
(* scheme of the result, or ValueError for an unbalanced IPv6 bracket in   *)
(* the network location.                                                   *)
(***************************************************************************)
scheme_chars ==
  {LowerLetters[i] : i \in 1..Len(LowerLetters)}
    \cup {UpperLetters[i] : i \in 1..Len(UpperLetters)}
    \cup {"0", "1", "2", "3", "4", "5", "6", "7", "8", "9", "+", "-", "."}

ValueError == [raised |-> TRUE, scheme |-> <<>>]

\* the text between a leading '//' and the next '/', '?' or '#'
splitnetloc(url) ==
  LET rest == slice_from(url, 2)
      ends == {i \in 1..Len(rest) : rest[i] \in {"/", "?", "#"}}
      stop == IF ends = {} THEN Len(rest) + 1
              ELSE CHOOSE i \in ends : \A j \in ends : i <= j
  IN  SubSeq(rest, 1, stop - 1)

urlparse(url) ==
  LET i == find(url, ":")
      has_scheme == /\ i > 0
                    /\ isalpha(url[1])
                    /\ \A k \in 1..i : url[k] \in scheme_chars
      scheme == IF has_scheme THEN lower(SubSeq(url, 1, i)) ELSE <<>>
      rest == IF has_scheme THEN slice_from(url, i + 1) ELSE url
      netloc == IF startswith(rest, <<"/", "/">>) THEN splitnetloc(rest) ELSE <<>>
      has(c) == \E k \in 1..Len(netloc) : netloc[k] = c
  IN  IF has("[") # has("]")
        THEN ValueError
        ELSE [raised |-> FALSE, scheme |-> scheme]

(***************************************************************************)
(* pathlib and the filesystem                                              *)
(***************************************************************************)
\* the components of a '/'-separated string
RECURSIVE split_slash(_)
split_slash(s) ==
  LET i == find(s, "/")
  IN  IF i = -1 THEN <<s>>
      ELSE <<SubSeq(s, 1, i)>> \o split_slash(slice_from(s, i + 1))

\* pathlib drops empty and '.' components and keeps '..'
parse_parts(s) ==
  SelectSeq(split_slash(s), LAMBDA part : part # <<>> /\ part # <<".">>)

\* base / "string"
joinpath(base, s) == base \o parse_parts(s)

\* Path.parent
parent(path) == SubSeq(path, 1, Len(path) - 1)

RECURSIVE join_slash(_)
join_slash(path) ==
  IF path = <<>> THEN <<>>
  ELSE IF Len(path) = 1 THEN path[1]
  ELSE path[1] \o <<"/">> \o join_slash(Tail(path))

\* Config.root_dir as a string
RootDir == <<"/", "r">>

\* str(path) for a path under root_dir
AbsStr(path) ==
  IF path = <<>> THEN RootDir ELSE RootDir \o <<"/">> \o join_slash(path)

\* str(path.relative_to(root_dir))
RelStr(path) == IF path = <<>> THEN <<".">> ELSE join_slash(path)

\* the directories of a tree whose regular files are fs
DirsOf(fs) ==
  {<<>>} \cup UNION {{SubSeq(f, 1, n) : n \in 0..(Len(f) - 1)} : f \in fs}

\* the operating system's walk of the components of path from root_dir:
\* the file reached, or <<>> when a component is missing, is used as a
\* directory without being one, or leaves root_dir
RECURSIVE walk(_, _, _)
walk(dirs, cur, rest) ==
  IF rest = <<>> THEN cur
  ELSE IF cur \notin dirs THEN <<>>
  ELSE IF Head(rest) = <<".", ".">>
    THEN IF cur = <<>> THEN <<>> ELSE walk(dirs, parent(cur), Tail(rest))
  ELSE walk(dirs, Append(cur, Head(rest)), Tail(rest))

\* a test that only HTML files pass
is_file_html(fs, path) ==
  /\ path # <<>>
  /\ walk(DirsOf(fs), <<>>, path) \in
       {f \in fs : endswith(f[Len(f)], <<".", "h", "t", "m", "l">>)}

\* p.exists() and p.is_file()
is_file(fs, path) == path # <<>> /\ walk(DirsOf(fs), <<>>, path) \in fs

(***************************************************************************)
(* Config.__init__                                                         *)
(***************************************************************************)
ignore_paths ==
  { <<".", "g", "i", "t">>,
    <<"n", "o", "d", "e", "_", "m", "o", "d", "u", "l", "e", "s">>,
    <<"_", "_", "p", "y", "c", "a", "c", "h", "e", "_", "_">>,
    <<".", "i", "d", "e", "a">>,
    <<".", "v", "s", "c", "o", "d", "e">>,
    <<"v", "e", "n", "v">>,
    <<"e", "n", "v">> }

\* ignore_url_prefixes without the telephone links
ignore_url_prefixes_no_tel ==
  { <<"/", "g", "o", "/">>,
    <<"/", "c", "d", "n", "-", "c", "g", "i", "/">>,
    <<"j", "a", "v", "a", "s", "c", "r", "i", "p", "t", ":">>,
    <<"m", "a", "i", "l", "t", "o", ":">>,
    <<"#">> }

ignore_url_prefixes ==
  { <<"/", "g", "o", "/">>,
    <<"/", "c", "d", "n", "-", "c", "g", "i", "/">>,
    <<"j", "a", "v", "a", "s", "c", "r", "i", "p", "t", ":">>,
    <<"m", "a", "i", "l", "t", "o", ":">>,
    <<"t", "e", "l", ":">>,
    <<"#">> }

ignore_files_contain ==
  { <<"g", "o", "o", "g", "l", "e">>,
    <<"4", "0", "4", ".", "h", "t", "m", "l">> }

InitialScore == 100

DOT_HTML == <<".", "h", "t", "m", "l">>
DOT_HTM == <<".", "h", "t", "m">>
INDEX_HTML == <<"i", "n", "d", "e", "x", ".", "h", "t", "m", "l">>
EXTERNAL == <<"E", "x", "t", "e", "r", "n", "a", "l">>

\* Auditor.is_ignored_path, on the components below root_dir
is_ignored_path(path) == \E i \in 1..Len(path) : path[i] \in ignore_paths

\* Auditor.is_ignored_file
is_ignored_file(filename) == \E keyword \in ignore_files_contain : contains(filename, keyword)

\* the test of scan_files on one file of the tree: pruned directories,
\* extension, ignored file name, ignored path
is_scanned(path) ==
  /\ \A i \in 1..(Len(path) - 1) : path[i] \notin ignore_paths
  /\ endswith(path[Len(path)], DOT_HTML)
  /\ ~is_ignored_file(path[Len(path)])
  /\ ~is_ignored_path(path)

\* Config.detect_config: the base URL read from the landing page
detect_config(fs, readable, canonical, og_url) ==
  IF <<INDEX_HTML>> \notin fs \/ ~readable THEN <<>>
  ELSE IF canonical # <<>> THEN rstrip(canonical, "/")
  ELSE IF og_url # <<>> THEN rstrip(og_url, "/")
  ELSE <<>>

(***************************************************************************)
(* Auditor.check_internal_link and Auditor.check_link_resolution, as       *)
(* functions of the audit state                                            *)
(*   st = [external_links, internal_pages, dead_links, warnings, score,    *)
(*         call, raised]                                                   *)
(* where call holds the local variables of the last check_internal_link    *)
(* and raised tells that an exception left the call.                       *)
(***************************************************************************)
AbsoluteUrlPenalty == 2
HtmlExtensionPenalty == 2
RelativePathPenalty == 2
DeadLinkPenalty == 10

NoCall ==
  [active |-> FALSE, source_file |-> <<>>, href |-> <<>>, is_absolute_url |-> FALSE,
   href_clean |-> <<>>, potential_paths |-> <<>>, target_found |-> FALSE,
   target_file |-> <<>>]

\* one entry of Config.warnings: the source page and the message, which is
\* a fixed text (kind) around the href it quotes
Warning(source_file, kind, href) ==
  [source |-> RelStr(source_file), kind |-> kind, href |-> href]

\* one entry of Config.dead_links
DeadLink(source, href) == [source |-> source, href |-> href]

\* the three candidates of check_internal_link, in the order it appends them
potential_paths(source_file, href_clean) ==
  IF startswith(href_clean, <<"/">>)
    THEN LET path_part == lstrip(href_clean, "/")
         IN  << joinpath(<<>>, path_part \o DOT_HTML),
                joinpath(joinpath(<<>>, path_part), INDEX_HTML),
                joinpath(<<>>, path_part) >>
    ELSE LET parent_dir == parent(source_file)
         IN  << joinpath(parent_dir, href_clean \o DOT_HTML),
                joinpath(joinpath(parent_dir, href_clean), INDEX_HTML),
                joinpath(parent_dir, href_clean) >>

\* first_file with the break of the loop left out: the last existing candidate
RECURSIVE first_file_no_break(_, _, _)
first_file_no_break(fs, paths, i) ==
  IF i > Len(paths) THEN 0
  ELSE IF first_file_no_break(fs, paths, i + 1) # 0
    THEN first_file_no_break(fs, paths, i + 1)
  ELSE IF is_file(fs, paths[i]) THEN i
  ELSE 0

\* the loop over potential_paths: the index at which it breaks, 0 when it
\* runs to the end
RECURSIVE first_file(_, _, _)
first_file(fs, paths, i) ==
  IF i > Len(paths) THEN 0
  ELSE IF is_file(fs, paths[i]) THEN i
  ELSE first_file(fs, paths, i + 1)

\* add_inbound marking the page as linked in place of counting the link
add_inbound_flag(pages, key) ==
  IF key \in DOMAIN pages
    THEN [pages EXCEPT ![key].inbound_count = 1]
    ELSE pages

\* the graph update of a found target: a page record gets one more inbound
\* link, any other file leaves the index as it is
add_inbound(pages, key) ==
  IF key \in DOMAIN pages
    THEN [pages EXCEPT ![key].inbound_count = @ + 1]
    ELSE pages

\* dead_link_of recording the cleaned href in place of the href it was given
dead_link_of_clean(source_file, href, href_clean) ==
  DeadLink(RelStr(source_file), href_clean)

\* the entry appended for a link without target
dead_link_of(source_file, href, href_clean) ==
  DeadLink(RelStr(source_file), href)

\* is_relative_path that looks at the href alone
is_relative_path_any(href, is_absolute_url) ==
  ~startswith(href, <<"/">>)

\* not href.startswith('/') and not is_absolute_url
is_relative_path(href, is_absolute_url) ==
  ~startswith(href, <<"/">>) /\ ~is_absolute_url

check_internal_link(st, fs, source_file, href, is_absolute_url) ==
  LET href_clean == split_first(split_first(href, "#"), "?")
      w1 == IF is_absolute_url
              THEN <<Warning(source_file, "AbsoluteUrl", href)>> ELSE <<>>
      w2 == IF endswith(href_clean, DOT_HTML) \/ endswith(href_clean, DOT_HTM)
              THEN <<Warning(source_file, "HtmlExtension", href)>> ELSE <<>>
      w3 == IF is_relative_path(href, is_absolute_url)
              THEN <<Warning(source_file, "RelativePath", href)>> ELSE <<>>
      score1 == st.score - Len(w1) * AbsoluteUrlPenalty
                         - Len(w2) * HtmlExtensionPenalty
                         - Len(w3) * RelativePathPenalty
      paths == potential_paths(source_file, href_clean)
      hit == first_file(fs, paths, 1)
      target_found == hit # 0
      target_file == IF target_found THEN paths[hit] ELSE <<>>
      key == AbsStr(target_file)
      locals == [active |-> TRUE, source_file |-> source_file, href |-> href,
                 is_absolute_url |-> is_absolute_url, href_clean |-> href_clean,
                 potential_paths |-> paths, target_found |-> target_found,
                 target_file |-> target_file]
  IN  IF href_clean = <<>>
        THEN [st EXCEPT !.call = [locals EXCEPT !.potential_paths = <<>>,
                                                !.target_found = FALSE,
                                                !.target_file = <<>>]]
      ELSE IF target_found
        THEN [st EXCEPT
               !.warnings = st.warnings \o w1 \o w2 \o w3,
               !.score = score1,
               !.internal_pages = add_inbound(st.internal_pages, key),
               !.call = locals]
      ELSE [st EXCEPT
               !.warnings = st.warnings \o w1 \o w2 \o w3,
               !.score = score1 - DeadLinkPenalty,
               !.dead_links = Append(st.dead_links, dead_link_of(source_file, href, href_clean)),
               !.call = locals]

HTTP == <<"h", "t", "t", "p">>
HTTPS == <<"h", "t", "t", "p", "s">>

\* is_base_url_link without the test that a base URL was detected
is_base_url_link_unguarded(base_url, href) ==
  startswith(href, base_url)

\* an absolute link into the site itself
is_base_url_link(base_url, href) ==
  base_url # <<>> /\ startswith(href, base_url)

check_link_resolution(st, fs, base_url, source_file, href) ==
  IF startswith_any(href, ignore_url_prefixes) THEN st
  ELSE LET parsed == urlparse(href)
       IN  IF parsed.raised THEN [st EXCEPT !.raised = TRUE]
           ELSE IF parsed.scheme \in {HTTP, HTTPS}
             THEN IF is_base_url_link(base_url, href)
                    THEN LET path == slice_from(href, Len(base_url))
                         IN  check_internal_link(st, fs, source_file,
                               IF path = <<>> THEN <<"/">> ELSE path, TRUE)
                    ELSE [st EXCEPT !.external_links = @ \cup {href}]
           ELSE check_internal_link(st, fs, source_file, href, FALSE)

(***************************************************************************)
(* The sites audited: a tree of regular files under root_dir, the base-URL *)
(* tags of the landing page, the order in which os.walk yields the files   *)
(* and, for every file scan_files keeps, what parse_content reads from it: *)
(* the number of h1 elements, of ld+json scripts, the breadcrumb marker,   *)
(* whether open() succeeds, and the stripped href of every a[href] in      *)
(* document order.                                                         *)
(***************************************************************************)
F_INDEX == <<<<"i", "n", "d", "e", "x", ".", "h", "t", "m", "l">>>>
F_A_HTML == <<<<"a", ".", "h", "t", "m", "l">>>>
F_A == <<<<"a">>>>
F_B_REINDEX == <<<<"b">>, <<"r", "e", "i", "n", "d", "e", "x", ".", "h", "t", "m", "l">>>>
F_B_HTML == <<<<"b", ".", "h", "t", "m", "l">>>>
F_B_INDEX == <<<<"b">>, <<"i", "n", "d", "e", "x", ".", "h", "t", "m", "l">>>>
F_404 == <<<<"4", "0", "4", ".", "h", "t", "m", "l">>>>
F_ENV_C == <<<<"e", "n", "v">>, <<"c", ".", "h", "t", "m", "l">>>>

H_A == <<"/", "a">>
H_A_HTML == <<"a", ".", "h", "t", "m", "l">>
H_M == <<"/", "m">>
H_M_FRAG == <<"/", "m", "#", "f">>
H_HASH == <<"#">>
H_TEL == <<"t", "e", "l", ":">>
H_GO == <<"/", "g", "o", "/">>
H_CDN == <<"/", "c", "d", "n", "-", "c", "g", "i", "/">>
H_JS == <<"j", "a", "v", "a", "s", "c", "r", "i", "p", "t", ":">>
H_MAILTO == <<"m", "a", "i", "l", "t", "o", ":">>
H_EXT == <<"h", "t", "t", "p", ":", "/", "/", "e">>
H_EXT_UPPER == <<"H", "T", "T", "P", "S", ":", "/", "/", "e">>
H_BASE_A == <<"h", "t", "t", "p", ":", "/", "/", "s", "/", "a">>
H_BASE == <<"h", "t", "t", "p", ":", "/", "/", "s">>
H_BASE_QUERY == <<"h", "t", "t", "p", ":", "/", "/", "s", "?", "q">>
H_BASE_GLUED == <<"h", "t", "t", "p", ":", "/", "/", "s", "a">>
H_ROOT == <<"/">>
H_BRACKET == <<"h", "t", "t", "p", ":", "/", "/", "[">>
H_QUERY == <<"?", "q">>
H_UP == <<".", ".">>
H_B_REINDEX == <<"/", "b", "/", "r", "e", "i", "n", "d", "e", "x">>
H_B == <<"/", "b">>
H_B_SLASH == <<"/", "b", "/">>
H_404 == <<"/", "4", "0", "4">>
H_ENV_C == <<"/", "e", "n", "v", "/", "c">>
H_B_REL == <<"b">>
BASE_TAG == <<"h", "t", "t", "p", ":", "/", "/", "s", "/">>

\* the most a[href] elements a site holds over all its pages
MaxLinks == 2

H1_COUNTS == {0, 1, 2}
SCHEMA_COUNTS == {0, 1}

Page(h1s, schemas, readable, hrefs) ==
  [h1s |-> h1s, schemas |-> schemas, breadcrumb |-> FALSE,
   readable |-> readable, hrefs |-> hrefs]

\* the pages with n links
PagesWith(H, h1set, schemaset, readset, n) ==
  {Page(h, sc, r, l) : h \in h1set, sc \in schemaset, r \in readset, l \in [1..n -> H]}

FS_A == {F_INDEX, F_A_HTML, F_A}
FS_B == {F_INDEX, F_B_REINDEX, F_A}
FS_C == {F_B_HTML, F_B_INDEX, F_404, F_ENV_C}

WALKS_A == {<<F_INDEX, F_A_HTML, F_A>>, <<F_A, F_A_HTML, F_INDEX>>}
WALKS_B == {<<F_A, F_INDEX, F_B_REINDEX>>}
WALKS_C == {<<F_404, F_B_HTML, F_B_INDEX, F_ENV_C>>}

HREFS_A ==
  {H_A, H_A_HTML, H_M_FRAG, H_EXT, H_EXT_UPPER, H_BASE_A, H_BASE, H_BASE_QUERY,
   H_ROOT, H_BRACKET}
HREFS_B ==
  {H_BASE_GLUED, H_UP, H_GO, H_CDN, H_JS, H_MAILTO, H_A, H_M, H_B_REINDEX, H_EXT}
HREFS_C ==
  {H_B, H_B_SLASH, H_404, H_ENV_C, H_BASE_A, H_EXT, H_B_REL, H_M, H_HASH, H_TEL,
   H_QUERY}

CORE_A == {H_A, H_EXT}
CORE_B == {H_B_REINDEX, H_M}
CORE_C == {H_B_REL, H_EXT}

\* a family of sites over one tree whose scanned files are p1 and p2: the
\* hrefs, h1 counts and schema counts its pages draw from, and whether p1
\* can be opened
Family(fs, canonical, og_url, walks, p1, p2, H, h1set, schemaset, p1reads) ==
  [fs |-> fs, canonical |-> canonical, og_url |-> og_url, walks |-> walks,
   p1 |-> p1, p2 |-> p2, hrefs |-> H, h1set |-> h1set, schemaset |-> schemaset,
   p1reads |-> p1reads]

\* every page well formed, links drawn from the wide sets
LinkSites ==
  { Family(FS_A, <<>>, BASE_TAG, {<<F_INDEX, F_A_HTML, F_A>>}, F_INDEX, F_A_HTML,
           HREFS_A, {1}, {1}, {TRUE}),
    Family(FS_B, BASE_TAG, <<>>, WALKS_B, F_INDEX, F_B_REINDEX, HREFS_B, {1}, {1}, {TRUE}),
    Family(FS_C, <<>>, <<>>, WALKS_C, F_B_HTML, F_B_INDEX, HREFS_C, {1}, {1}, {TRUE}) }

\* every combination of heading and schema defects, links drawn from the core sets
CoreSites ==
  { Family(FS_A, <<>>, BASE_TAG, WALKS_A, F_INDEX, F_A_HTML, CORE_A, H1_COUNTS,
           SCHEMA_COUNTS, {TRUE}),
    Family(FS_B, BASE_TAG, <<>>, WALKS_B, F_INDEX, F_B_REINDEX, CORE_B, H1_COUNTS,
           SCHEMA_COUNTS, {TRUE}),
    Family(FS_C, <<>>, <<>>, WALKS_C, F_B_HTML, F_B_INDEX, CORE_C, H1_COUNTS,
           SCHEMA_COUNTS, {TRUE}) }

\* the first file cannot be opened
FaultySites ==
  { Family(FS_A, <<>>, BASE_TAG, WALKS_A, F_INDEX, F_A_HTML, CORE_A, {1}, {1}, {FALSE}),
    Family(FS_C, <<>>, <<>>, WALKS_C, F_B_HTML, F_B_INDEX, CORE_C, {1}, {1}, {FALSE}) }

Sites == LinkSites \cup CoreSites \cup FaultySites

\* the links of the page of HeavySite
HeavyLinks == 8

\* a site whose findings cost more than the whole score: a page without h1
\* and schema holding HeavyLinks relative links to a missing a.html
HeavySite ==
  [fs |-> FS_C, canonical |-> <<>>, og_url |-> <<>>,
   walk |-> <<F_404, F_B_HTML, F_B_INDEX, F_ENV_C>>,
   pages |-> (F_B_HTML :> Page(0, 0, TRUE, [i \in 1..HeavyLinks |-> H_A_HTML])
              @@ F_B_INDEX :> Page(0, 0, TRUE, <<>>))]

(***************************************************************************)
(* State                                                                   *)
(***************************************************************************)
VARIABLES
  site,            \* the tree and the documents audited; never written
  base_url,        \* Config.base_url, <<>> for None
  files_to_scan,   \* Auditor.files_to_scan
  internal_pages,  \* Config.internal_pages: str(file_path) -> page record
  external_links,  \* Config.external_links
  dead_links,      \* Config.dead_links
  warnings,        \* Config.warnings
  score,           \* Config.score
  call,            \* the locals of the last check_internal_link
  pc,              \* the statement of main() that runs next
  fi,              \* parse_content: index of file_path in files_to_scan
  li,              \* parse_content: index of the next a[href], 0 before the file is read
  futures,         \* check_external_links_async: the submitted calls of check_url
  top_pages,       \* Auditor.top_pages
  final_score      \* print_report: final_score, -1 before the report

vars ==
  <<site, base_url, files_to_scan, internal_pages, external_links, dead_links,
    warnings, score, call, pc, fi, li, futures, top_pages, final_score>>

\* Config.__init__, Config.detect_config and Auditor.__init__ on the site
constructed ==
  /\ base_url = detect_config(site.fs,
                  IF F_INDEX \in DOMAIN site.pages THEN site.pages[F_INDEX].readable ELSE TRUE,
                  site.canonical, site.og_url)
  /\ files_to_scan = <<>>
  /\ internal_pages = <<>>
  /\ external_links = {}
  /\ dead_links = <<>>
  /\ warnings = <<>>
  /\ score = InitialScore
  /\ call = NoCall
  /\ pc = "scan_files"
  /\ fi = 0
  /\ li = 0
  /\ futures = <<>>
  /\ top_pages = <<>>
  /\ final_score = -1

\* the audit of one of the sites starts
Init ==
  /\ \/ \E f \in Sites, n1 \in 0..MaxLinks :
          \E n2 \in 0..(MaxLinks - n1) :
            \E w \in f.walks,
               c1 \in PagesWith(f.hrefs, f.h1set, f.schemaset, f.p1reads, n1),
               c2 \in PagesWith(f.hrefs, f.h1set, f.schemaset, {TRUE}, n2) :
              site = [fs |-> f.fs, canonical |-> f.canonical, og_url |-> f.og_url,
                      walk |-> w, pages |-> (f.p1 :> c1 @@ f.p2 :> c2)]
     \/ site = HeavySite
  /\ constructed

(***************************************************************************)
(* Auditor.scan_files                                                      *)
(***************************************************************************)
NewPage(path) ==
  [rel_path |-> RelStr(path), h1_count |-> 0, has_schema |-> FALSE,
   has_breadcrumb |-> FALSE, links |-> <<>>, inbound_count |-> 0]

scan_files ==
  /\ pc = "scan_files"
  /\ LET kept == SelectSeq(site.walk, is_scanned)
     IN  /\ files_to_scan' = kept
         /\ internal_pages' =
              [key \in {AbsStr(kept[i]) : i \in 1..Len(kept)} |->
                 NewPage(kept[CHOOSE i \in 1..Len(kept) : AbsStr(kept[i]) = key])]
         /\ fi' = 1
         /\ pc' = IF kept = <<>> THEN "check_external_links_async" ELSE "parse_content"
  /\ UNCHANGED <<site, base_url, external_links, dead_links, warnings, score, call,
                 li, futures, top_pages, final_score>>

(***************************************************************************)
(* Auditor.parse_content                                                   *)
(***************************************************************************)
MissingH1Penalty == 5
MissingSchemaPenalty == 2

\* the for loop over files_to_scan moves to the next file, or ends
NextFile ==
  /\ fi' = fi + 1
  /\ li' = 0
  /\ pc' = IF fi + 1 > Len(files_to_scan) THEN "check_external_links_async"
           ELSE "parse_content"

\* an exception that leaves parse_content
reraise == pc' = "Traceback" /\ UNCHANGED <<fi, li>>

\* except Exception: the error is printed and the for loop goes on
except_Exception == NextFile

\* open, read and parse files_to_scan[fi], then the H1, schema and
\* breadcrumb checks
parse_page ==
  /\ pc = "parse_content"
  /\ li = 0
  /\ LET file_path == files_to_scan[fi]
         doc == site.pages[file_path]
         key == AbsStr(file_path)
         rel == internal_pages[key].rel_path
         w1 == IF doc.h1s = 0 THEN <<[source |-> rel, kind |-> "MissingH1", href |-> <<>>]>>
               ELSE IF doc.h1s > 1
                 THEN <<[source |-> rel, kind |-> "MultipleH1", href |-> <<>>]>>
               ELSE <<>>
         w2 == IF doc.schemas = 0
                 THEN <<[source |-> rel, kind |-> "MissingSchema", href |-> <<>>]>>
               ELSE <<>>
     IN  IF ~doc.readable
           THEN /\ except_Exception
                /\ UNCHANGED <<internal_pages, warnings, score>>
           ELSE /\ internal_pages' =
                     [internal_pages EXCEPT ![key].h1_count = doc.h1s,
                                            ![key].has_schema = doc.schemas > 0,
                                            ![key].has_breadcrumb = doc.breadcrumb]
                /\ warnings' = warnings \o w1 \o w2
                /\ score' = score - (IF doc.h1s = 0 THEN MissingH1Penalty ELSE 0)
                                  - (IF doc.schemas = 0 THEN MissingSchemaPenalty ELSE 0)
                /\ IF doc.hrefs = <<>>
                     THEN NextFile
                     ELSE li' = 1 /\ UNCHANGED <<fi, pc>>
  /\ UNCHANGED <<site, base_url, files_to_scan, external_links, dead_links, call,
                 futures, top_pages, final_score>>

\* one turn of the loop over soup.find_all('a', href=True)
parse_link ==
  /\ pc = "parse_content"
  /\ li > 0
  /\ LET file_path == files_to_scan[fi]
         hrefs == site.pages[file_path].hrefs
         st == [external_links |-> external_links, internal_pages |-> internal_pages,
                dead_links |-> dead_links, warnings |-> warnings, score |-> score,
                call |-> NoCall, raised |-> FALSE]
         out == check_link_resolution(st, site.fs, base_url, file_path, hrefs[li])
     IN  /\ external_links' = out.external_links
         /\ internal_pages' = out.internal_pages
         /\ dead_links' = out.dead_links
         /\ warnings' = out.warnings
         /\ score' = out.score
         /\ call' = out.call
         /\ IF out.raised THEN except_Exception
            ELSE IF li = Len(hrefs) THEN NextFile
            ELSE li' = li + 1 /\ UNCHANGED <<fi, pc>>
  /\ UNCHANGED <<site, base_url, files_to_scan, futures, top_pages, final_score>>

(***************************************************************************)
(* Auditor.check_external_links_async                                      *)
(***************************************************************************)
MAX_WORKERS == 10
ExternalPenalty == 5

\* the status codes a server answers with
HTTP_STATUSES == {200, 404, 500}

DIGITS == <<"0", "1", "2", "3", "4", "5", "6", "7", "8", "9">>

\* str(n) for n >= 0
RECURSIVE str_int(_)
str_int(n) ==
  IF n < 10 THEN <<DIGITS[n + 1]>>
  ELSE str_int(n \div 10) \o <<DIGITS[(n % 10) + 1]>>

\* f"{url} (Status: {status_msg})"
status_text(url, status) ==
  url \o <<" ", "(", "S", "t", "a", "t", "u", "s", ":", " ">>
      \o (IF status > 0 THEN str_int(status)
          ELSE <<"C", "o", "n", "n", "e", "c", "t", "i", "o", "n", " ",
                 "E", "r", "r", "o", "r">>)
      \o <<")">>

\* the links of the page of PoolSite: one more than the pool has workers
PoolLinks == 11

\* the external URLs of PoolSite
PoolUrl(k) == <<"h", "t", "t", "p", ":", "/", "/", "p">> \o str_int(k)
PoolUrls == {PoolUrl(k) : k \in 1..PoolLinks}

\* a site with more external links than the pool has workers: index.html
\* holds PoolLinks links to different servers
PoolSite ==
  [fs |-> FS_A, canonical |-> <<>>, og_url |-> BASE_TAG,
   walk |-> <<F_INDEX, F_A_HTML, F_A>>,
   pages |-> (F_INDEX :> Page(1, 1, TRUE, [k \in 1..PoolLinks |-> PoolUrl(k)])
              @@ F_A_HTML :> Page(1, 1, TRUE, <<>>))]

\* what the server of url answers to HEAD and to GET, and whether the
\* connection to it can fail.  The servers of PoolSite are up and answer
\* 200, the first of them to GET only; any other server answers anything.
head_status_codes(url) ==
  IF url \notin PoolUrls THEN HTTP_STATUSES
  ELSE IF url = PoolUrl(1) THEN {404}
  ELSE {200}

get_status_codes(url) == IF url \notin PoolUrls THEN HTTP_STATUSES ELSE {200}

can_raise(url) == url \notin PoolUrls

\* the sets whose elements list() is followed through in every order
MaxShuffled == 3

\* the elements of s once each, in one order
RECURSIVE one_list(_)
one_list(s) ==
  IF s = {} THEN <<>>
  ELSE LET x == CHOOSE x \in s : TRUE
       IN  <<x>> \o one_list(s \ {x})

\* lists_of for a collection that keeps every element twice
lists_of_twice(s) ==
  {l \o l : l \in {m \in [1..Cardinality(s) -> s] :
                     \A i, j \in 1..Cardinality(s) : m[i] = m[j] => i = j}}

\* list(s): the elements of s once each, in some order
lists_of(s) ==
  {l \in [1..Cardinality(s) -> s] : \A i, j \in 1..Cardinality(s) : l[i] = l[j] => i = j}

\* executor.submit(check_url, url): the call, the requests it has sent so far
\* with the status code of each response (-1 while none has come or when
\* the request raised), and the status it returns
Future(url) == [url |-> url, state |-> "pending", requests |-> <<>>, status |-> -1]

\* requests.head / requests.get is called
Request(method) == [method |-> method, raised |-> FALSE, status_code |-> -1]

\* the call gets its response, or raises
Response(request, status_code) == [request EXCEPT !.status_code = status_code]
Raise(request) == [request EXCEPT !.raised = TRUE]

\* the status code from which a response counts as a failure
HTTP_ERROR == 400

\* a pool that never counts a worker as busy
running_none == {}

running == {i \in 1..Len(futures) : futures[i].state \in {"head", "get"}}

\* links = list(external_links); the early return, or one submit per link
submit_all ==
  /\ pc = "check_external_links_async"
  /\ IF external_links = {}
       THEN pc' = "analyze_graph" /\ UNCHANGED futures
       ELSE /\ \E links \in (IF Cardinality(external_links) <= MaxShuffled
                              THEN lists_of(external_links)
                              ELSE {one_list(external_links)}) :
                 futures' = [i \in 1..Len(links) |-> Future(links[i])]
            /\ pc' = "as_completed"
  /\ UNCHANGED <<site, base_url, files_to_scan, internal_pages, external_links,
                 dead_links, warnings, score, call, fi, li, top_pages, final_score>>

\* a free worker takes the oldest queued call and sends requests.head
worker_head ==
  /\ pc = "as_completed"
  /\ Cardinality(running) < MAX_WORKERS
  /\ \E i \in 1..Len(futures) :
       /\ futures[i].state = "pending"
       /\ \A j \in 1..(i - 1) : futures[j].state # "pending"
       /\ futures' = [futures EXCEPT ![i].state = "head",
                                      ![i].requests = <<Request("HEAD")>>]
  /\ UNCHANGED <<site, base_url, files_to_scan, internal_pages, external_links,
                 dead_links, warnings, score, call, pc, fi, li, top_pages, final_score>>

\* a response to requests.head that sends nothing after it
retries_never(status_code) == FALSE

\* the test on the response to requests.head that sends requests.get
retries(status_code) == status_code >= HTTP_ERROR

\* requests.head returns or raises, and the worker that sees it raise
\* records the dead link itself
head_response_records ==
  /\ pc = "as_completed"
  /\ \E i \in 1..Len(futures) :
       /\ futures[i].state = "head"
       /\ \/ /\ \E status_code \in head_status_codes(futures[i].url) :
                  futures' =
                    IF retries(status_code)
                      THEN [futures EXCEPT
                              ![i].state = "get",
                              ![i].requests = <<Response(@[1], status_code),
                                                Request("GET")>>]
                      ELSE [futures EXCEPT
                              ![i].state = "done",
                              ![i].requests = <<Response(@[1], status_code)>>,
                              ![i].status = 200]
             /\ UNCHANGED <<dead_links, score>>
          \/ /\ can_raise(futures[i].url)
             /\ futures' = [futures EXCEPT ![i].state = "done",
                                           ![i].requests = <<Raise(@[1])>>,
                                           ![i].status = 200]
             /\ dead_links' = Append(dead_links,
                                DeadLink(EXTERNAL, status_text(futures[i].url, 0)))
             /\ score' = score - ExternalPenalty
  /\ UNCHANGED <<site, base_url, files_to_scan, internal_pages, external_links,
                 warnings, call, pc, fi, li, top_pages, final_score>>

\* requests.head returns or raises
head_response ==
  /\ pc = "as_completed"
  /\ \E i \in 1..Len(futures) :
       /\ futures[i].state = "head"
       /\ \/ \E status_code \in head_status_codes(futures[i].url) :
               futures' =
                 IF retries(status_code)
                   THEN [futures EXCEPT
                           ![i].state = "get",
                           ![i].requests = <<Response(@[1], status_code), Request("GET")>>]
                   ELSE [futures EXCEPT
                           ![i].state = "done",
                           ![i].requests = <<Response(@[1], status_code)>>,
                           ![i].status = 200]
          \/ /\ can_raise(futures[i].url)
             /\ futures' = [futures EXCEPT ![i].state = "done",
                                           ![i].requests = <<Raise(@[1])>>,
                                           ![i].status = 0]
  /\ UNCHANGED <<site, base_url, files_to_scan, internal_pages, external_links,
                 dead_links, warnings, score, call, pc, fi, li, top_pages, final_score>>

\* requests.get returns, or raises an exception that nothing catches until
\* main()
get_response_uncaught ==
  /\ pc = "as_completed"
  /\ \E i \in 1..Len(futures) :
       /\ futures[i].state = "get"
       /\ \/ /\ \E status_code \in get_status_codes(futures[i].url) :
                  futures' = [futures EXCEPT
                                ![i].state = "done",
                                ![i].requests = <<@[1], Response(@[2], status_code)>>,
                                ![i].status = IF status_code >= HTTP_ERROR
                                                THEN status_code ELSE 200]
             /\ pc' = pc
          \/ /\ can_raise(futures[i].url)
             /\ futures' = [futures EXCEPT ![i].state = "done",
                                           ![i].requests = <<@[1], Raise(@[2])>>]
             /\ pc' = "Traceback"
  /\ UNCHANGED <<site, base_url, files_to_scan, internal_pages, external_links,
                 dead_links, warnings, score, call, fi, li, top_pages, final_score>>

\* requests.get returns or raises
get_response ==
  /\ pc = "as_completed"
  /\ \E i \in 1..Len(futures) :
       /\ futures[i].state = "get"
       /\ \/ \E status_code \in get_status_codes(futures[i].url) :
               futures' = [futures EXCEPT
                             ![i].state = "done",
                             ![i].requests = <<@[1], Response(@[2], status_code)>>,
                             ![i].status = IF status_code >= HTTP_ERROR THEN status_code
                                           ELSE 200]
          \/ /\ can_raise(futures[i].url)
             /\ futures' = [futures EXCEPT ![i].state = "done",
                                           ![i].requests = <<@[1], Raise(@[2])>>,
                                           ![i].status = 0]
  /\ UNCHANGED <<site, base_url, files_to_scan, internal_pages, external_links,
                 dead_links, warnings, score, call, pc, fi, li, top_pages, final_score>>

\* a test that lets the verdict 0 through
is_dead_status_http(status) == status >= HTTP_ERROR

\* status >= 400 or status == 0
is_dead_status(status) == status >= HTTP_ERROR \/ status = 0

\* as_completed yields a finished future and the main thread reads its result
collect ==
  /\ pc = "as_completed"
  /\ \E i \in 1..Len(futures) :
       /\ futures[i].state = "done"
       /\ futures' = [futures EXCEPT ![i].state = "collected"]
       /\ LET url == futures[i].url
              status == futures[i].status
          IN  IF is_dead_status(status)
                THEN /\ dead_links' = Append(dead_links,
                                        DeadLink(EXTERNAL, status_text(url, status)))
                     /\ score' = score - ExternalPenalty
                ELSE UNCHANGED <<dead_links, score>>
  /\ UNCHANGED <<site, base_url, files_to_scan, internal_pages, external_links,
                 warnings, call, pc, fi, li, top_pages, final_score>>

\* a loop that ends with the first result
exhausted_at_first(futs) == \E i \in 1..Len(futs) : futs[i].state = "collected"

\* as_completed has yielded every future of future_to_url
exhausted(futs) == \A i \in 1..Len(futs) : futs[i].state = "collected"

\* as_completed is exhausted and the executor is shut down
join ==
  /\ pc = "as_completed"
  /\ exhausted(futures)
  /\ pc' = "analyze_graph"
  /\ UNCHANGED <<site, base_url, files_to_scan, internal_pages, external_links,
                 dead_links, warnings, score, call, fi, li, futures, top_pages,
                 final_score>>

(***************************************************************************)
(* Auditor.analyze_graph                                                   *)
(***************************************************************************)
OrphanPenalty == 5
TOP_PAGES == 10

\* the test behind the 'continue' of the orphan loop
is_index_page(path) == endswith(path, INDEX_HTML)

\* an orphan loop that does not look at inbound_count
orphans_of_any(pages, keys) ==
  SelectSeq(keys, LAMBDA path : ~is_index_page(path))

\* the pages the orphan loop reports, in the order of internal_pages.items()
orphans_of(pages, keys) ==
  SelectSeq(keys, LAMBDA path : ~is_index_page(path) /\ pages[path].inbound_count = 0)

\* sorted(..., key=inbound_count, reverse=True): stable insertion of keys[n]
RECURSIVE sorted_pages(_, _)
sorted_pages(pages, keys) ==
  IF keys = <<>> THEN <<>>
  ELSE LET rest == sorted_pages(pages, SubSeq(keys, 1, Len(keys) - 1))
           last == keys[Len(keys)]
           before == SelectSeq(rest, LAMBDA k :
                       pages[k].inbound_count >= pages[last].inbound_count)
           after == SelectSeq(rest, LAMBDA k :
                       pages[k].inbound_count < pages[last].inbound_count)
       IN  before \o <<last>> \o after

analyze_graph ==
  /\ pc = "analyze_graph"
  /\ LET keys == [i \in 1..Len(files_to_scan) |-> AbsStr(files_to_scan[i])]
         orphans == orphans_of(internal_pages, keys)
         ranked == sorted_pages(internal_pages, keys)
     IN  /\ warnings' = warnings \o
              [i \in 1..Len(orphans) |->
                 [source |-> internal_pages[orphans[i]].rel_path, kind |-> "Orphan",
                  href |-> <<>>]]
         /\ score' = score - OrphanPenalty * Len(orphans)
         /\ top_pages' = SubSeq(ranked, 1, IF Len(ranked) < TOP_PAGES THEN Len(ranked)
                                           ELSE TOP_PAGES)
  /\ pc' = "print_report"
  /\ UNCHANGED <<site, base_url, files_to_scan, internal_pages, external_links,
                 dead_links, call, fi, li, futures, final_score>>

(***************************************************************************)
(* Auditor.print_report                                                    *)
(***************************************************************************)
\* max that hands back the score as it is
max_unclamped(a, b) == b

max(a, b) == IF a >= b THEN a ELSE b

print_report ==
  /\ pc = "print_report"
  /\ final_score' = max(0, score)
  /\ pc' = "done"
  /\ UNCHANGED <<site, base_url, files_to_scan, internal_pages, external_links,
                 dead_links, warnings, score, call, fi, li, futures, top_pages>>

Next ==
  \/ scan_files
  \/ parse_page
  \/ parse_link
  \/ submit_all
  \/ worker_head
  \/ head_response
  \/ get_response
  \/ collect
  \/ join
  \/ analyze_graph
  \/ print_report

Spec == Init /\ [][Next]_vars

\* the audit of PoolSite
PoolInit == site = PoolSite /\ constructed

PoolSpec == PoolInit /\ [][Next]_vars

\* from check_external_links_async on, main() runs on: the interpreter keeps
\* executing the main thread and the pool's threads, and every request
\* returns or raises within its timeout
AfterCrawl ==
  \/ submit_all
  \/ worker_head
  \/ head_response
  \/ get_response
  \/ collect
  \/ join
  \/ analyze_graph
  \/ print_report

FairSpec == Spec /\ WF_vars(AfterCrawl)

\* the whole of main() runs on.  A step of parse_link is possible exactly
\* when parse_content is inside the loop over a page's links, and every
\* step taken there is one: the loop does not stay at one link for ever.
CrawlFairSpec ==
  /\ FairSpec
  /\ WF_vars(scan_files \/ parse_page)
  /\ []<>(~(pc = "parse_content" /\ li > 0))

(***************************************************************************)
(* Properties                                                              *)
(***************************************************************************)
\* parse_content is about to hand the next href to check_link_resolution
LinkStep == pc = "parse_content" /\ li > 0
CurFile == files_to_scan[fi]
CurHref == site.pages[CurFile].hrefs[li]

\* h without its fragment and query string
Cleaned(h) ==
  LET cut == {i \in 1..Len(h) : h[i] \in {"#", "?"}}
  IN  IF cut = {} THEN h
      ELSE SubSeq(h, 1, (CHOOSE i \in cut : \A j \in cut : i <= j) - 1)

\* <base>/<path>.html, <base>/<path>/index.html, <base>/<path>
Candidates(base, path) ==
  << joinpath(base, path \o DOT_HTML),
     joinpath(joinpath(base, path), INDEX_HTML),
     joinpath(base, path) >>

\* the candidates of the cleaned href hc found in source file s
CandidatesOf(s, hc) ==
  Candidates(IF startswith(hc, <<"/">>) THEN <<>> ELSE parent(s), lstrip(hc, "/"))

Existing(cands) == {i \in 1..Len(cands) : is_file(site.fs, cands[i])}

Least(S) == CHOOSE i \in S : \A j \in S : i <= j

\* C1: when check_internal_link is given a href whose cleaned form is not
\* empty and one of the candidates <base>/<path>.html,
\* <base>/<path>/index.html, <base>/<path> is a regular file, it finds a
\* target, the target is the first such candidate in that order, and the
\* list of dead links stays as it was.
C1_FirstExistingCandidate ==
  [][ (LinkStep /\ call'.active /\ Cleaned(call'.href) # <<>>) =>
        LET cands == CandidatesOf(CurFile, Cleaned(call'.href))
        IN  Existing(cands) # {} =>
              /\ call'.target_found
              /\ call'.target_file = cands[Least(Existing(cands))]
              /\ dead_links' = dead_links ]_vars

\* C1 witness: a link was resolved to the .html candidate although the
\* exact path exists as a regular file too
C1_Witness ==
  /\ call.active
  /\ call.target_found
  /\ Len(call.potential_paths) = 3
  /\ call.target_file = call.potential_paths[1]
  /\ is_file(site.fs, call.potential_paths[3])
  /\ call.potential_paths[1] # call.potential_paths[3]

\* the href check_link_resolution passes on for the link h: h itself, or
\* what follows the base URL, '/' when nothing follows
Passed(h, is_absolute_url) ==
  IF ~is_absolute_url THEN h
  ELSE IF Len(h) = Len(base_url) THEN <<"/">>
  ELSE SubSeq(h, Len(base_url) + 1, Len(h))

\* C2: when none of the three candidates of a link with a non-empty cleaned
\* href is a regular file, exactly one entry (relative path of the source
\* page, href as passed to the resolution) is appended to dead_links, the
\* score drops by 10 for it on top of 2 for every warning of the link, and
\* no inbound_count changes.
C2_DeadLinkRecorded ==
  [][ (LinkStep /\ call'.active /\ Cleaned(call'.href) # <<>>) =>
        LET cands == CandidatesOf(CurFile, Cleaned(call'.href))
        IN  Existing(cands) = {} =>
              /\ call'.href = Passed(CurHref, call'.is_absolute_url)
              /\ dead_links' = Append(dead_links,
                                 [source |-> RelStr(CurFile), href |-> call'.href])
              /\ score' = score - 10 - 2 * (Len(warnings') - Len(warnings))
              /\ internal_pages' = internal_pages ]_vars

\* C2 witness: the last dead link is the one of the last internal link, and
\* the href recorded carries a fragment
C2_Witness ==
  /\ call.active
  /\ ~call.target_found
  /\ call.href_clean # <<>>
  /\ call.href_clean # call.href
  /\ dead_links # <<>>
  /\ dead_links[Len(dead_links)] =
       [source |-> RelStr(call.source_file), href |-> call.href]

\* the six ignored prefixes
IgnoredPrefixes == {H_GO, H_CDN, H_JS, H_MAILTO, H_TEL, H_HASH}
IsIgnored(h) == \E p \in IgnoredPrefixes : startswith(h, p)

\* urlparse returns for h and its scheme is http or https
IsHttp(h) == ~urlparse(h).raised /\ urlparse(h).scheme \in {HTTP, HTTPS}

StartsWithBase(h) == base_url # <<>> /\ startswith(h, base_url)

IsInternalAbsolute(h) == ~IsIgnored(h) /\ IsHttp(h) /\ StartsWithBase(h)
IsExternal(h) == ~IsIgnored(h) /\ IsHttp(h) /\ ~StartsWithBase(h)
IsInternal(h) == ~IsIgnored(h) /\ ~urlparse(h).raised /\ (IsHttp(h) => StartsWithBase(h))
Raises(h) == ~IsIgnored(h) /\ urlparse(h).raised

\* the links the crawl hands to check_link_resolution: every link of a file
\* that opens, up to the first one that raises
Occurrences ==
  {o \in UNION {{<<f, i>> : i \in 1..Len(site.pages[f].hrefs)} : f \in DOMAIN site.pages} :
     /\ site.pages[o[1]].readable
     /\ \A j \in 1..(o[2] - 1) : ~Raises(site.pages[o[1]].hrefs[j])}

HrefAt(o) == site.pages[o[1]].hrefs[o[2]]

\* str() of the candidate selected for the link h of source file s, <<>>
\* when the link is not internal, is a bare fragment or query, or is dead
TargetOf(s, h) ==
  IF ~IsInternal(h) THEN <<>>
  ELSE LET hc == Cleaned(Passed(h, IsInternalAbsolute(h)))
           cands == CandidatesOf(s, hc)
           found == Existing(cands)
       IN  IF hc = <<>> \/ found = {} THEN <<>>
           ELSE AbsStr(cands[Least(found)])

\* parse_content has just returned, or the run is over
Crawled == pc \in {"check_external_links_async", "done"}

\* C3 as stated: after the crawl every inbound_count is the number of
\* distinct (source page, href) pairs whose resolution target is the page.
C3_DistinctPairs ==
  Crawled =>
    \A key \in DOMAIN internal_pages :
      internal_pages[key].inbound_count =
        Cardinality({<<o[1], HrefAt(o)>> : o \in {x \in Occurrences :
                                                    TargetOf(x[1], HrefAt(x)) = key}})

\* C3 amended: after the crawl every inbound_count is the number of link
\* occurrences, repetitions of a href in a page included, whose selected
\* candidate has the page's path as its string.
C3_Occurrences ==
  Crawled =>
    \A key \in DOMAIN internal_pages :
      internal_pages[key].inbound_count =
        Cardinality({o \in Occurrences : TargetOf(o[1], HrefAt(o)) = key})

\* C3 witness: a page holds the same href twice and its target counts both
C3_Witness ==
  /\ pc = "done"
  /\ \E o1, o2 \in Occurrences :
       /\ o1[1] = o2[1]
       /\ o1[2] < o2[2]
       /\ HrefAt(o1) = HrefAt(o2)
       /\ TargetOf(o1[1], HrefAt(o1)) \in DOMAIN internal_pages
       /\ internal_pages[TargetOf(o1[1], HrefAt(o1))].inbound_count = 2

CountKind(ws, kind, source) ==
  Cardinality({i \in 1..Len(ws) : ws[i].kind = kind /\ ws[i].source = source})

\* the pages analyze_graph is to report: no inbound link and a file name
\* other than index.html
ExpectedOrphans ==
  {f \in DOMAIN site.pages :
     /\ AbsStr(f) \in DOMAIN internal_pages
     /\ internal_pages[AbsStr(f)].inbound_count = 0
     /\ f[Len(f)] # INDEX_HTML}

\* C4: analyze_graph appends one 'Orphan page' warning and takes 5 from the
\* score for exactly the pages without inbound link whose file name is not
\* index.html, reindex.html included.
C4_OrphanIffNotIndexHtml ==
  [][ pc = "analyze_graph" =>
        /\ \A f \in DOMAIN site.pages :
             CountKind(warnings', "Orphan", RelStr(f)) =
               IF f \in ExpectedOrphans THEN 1 ELSE 0
        /\ score' = score - 5 * Cardinality(ExpectedOrphans) ]_vars

\* the penalty of one warning
WarningPenalty(w) ==
  CASE w.kind = "AbsoluteUrl" -> 2
    [] w.kind = "HtmlExtension" -> 2
    [] w.kind = "RelativePath" -> 2
    [] w.kind = "MissingH1" -> 5
    [] w.kind = "MissingSchema" -> 2
    [] w.kind = "Orphan" -> 5
    [] w.kind = "MultipleH1" -> 0

\* the penalty of one dead link
DeadPenalty(d) == IF d.source = EXTERNAL THEN 5 ELSE 10

RECURSIVE SumWarnings(_)
SumWarnings(ws) ==
  IF ws = <<>> THEN 0 ELSE WarningPenalty(Head(ws)) + SumWarnings(Tail(ws))

RECURSIVE SumDead(_)
SumDead(ds) ==
  IF ds = <<>> THEN 0 ELSE DeadPenalty(Head(ds)) + SumDead(Tail(ds))

\* C5: the score print_report shows is max(0, 100 - P), P the sum of the
\* penalties of the recorded findings; it lies between 0 and 100.
C5_ScoreShown ==
  pc = "done" =>
    LET P == SumWarnings(warnings) + SumDead(dead_links)
    IN  /\ final_score = (IF 100 - P > 0 THEN 100 - P ELSE 0)
        /\ final_score >= 0
        /\ final_score <= 100

\* C5 witness: the penalties exceed 100 and the report shows 0
C5_Witness ==
  /\ pc = "done"
  /\ SumWarnings(warnings) + SumDead(dead_links) > 100
  /\ score < 0
  /\ final_score = 0

\* check_external_links_async has just returned
Returned == pc = "analyze_graph"

\* the external URLs of the links the crawl went through
ExternalUrls == {HrefAt(o) : o \in {x \in Occurrences : IsExternal(HrefAt(x))}}

FuturesOf(u) == {i \in 1..Len(futures) : futures[i].url = u}

\* C6: once check_external_links_async has returned, every external URL of
\* the crawl has exactly one check_url call, whose verdict was collected,
\* and no call was made for anything else.
C6_OneProbePerUrl ==
  Returned =>
    /\ \A u \in ExternalUrls :
         /\ Cardinality(FuturesOf(u)) = 1
         /\ \A i \in FuturesOf(u) :
              futures[i].state = "collected" /\ futures[i].status >= 0
    /\ \A i \in 1..Len(futures) : futures[i].url \in ExternalUrls

\* C6 witness: a URL referenced by two links was probed once
C6_Witness ==
  /\ Returned
  /\ \E o1, o2 \in Occurrences :
       /\ o1 # o2
       /\ HrefAt(o1) = HrefAt(o2)
       /\ IsExternal(HrefAt(o1))
       /\ Cardinality(FuturesOf(HrefAt(o1))) = 1

\* C7: a href that is not ignored joins the external links exactly when its
\* scheme is http or https and it does not start with a configured base
\* URL; a http or https href that starts with the base URL goes to
\* check_internal_link with what follows the base URL and stays out of the
\* external links.
C7_ExternalIffForeignHttp ==
  [][ (LinkStep /\ ~IsIgnored(CurHref)) =>
        /\ CurHref \in external_links' <=> (IsHttp(CurHref) /\ ~StartsWithBase(CurHref))
        /\ external_links \subseteq external_links'
        /\ external_links' \subseteq external_links \cup {CurHref}
        /\ (IsHttp(CurHref) /\ StartsWithBase(CurHref)) =>
              /\ call'.active
              /\ call'.is_absolute_url
              /\ call'.source_file = CurFile
              /\ call'.href = Passed(CurHref, TRUE) ]_vars

\* C7 witness: one link went to the external links and a later one, which
\* starts with the base URL, was resolved as an internal link
C7_Witness ==
  /\ external_links # {}
  /\ call.active
  /\ call.is_absolute_url
  /\ \A u \in external_links : ~StartsWithBase(u)

\* C8: the candidates of a link that starts with the base URL are built
\* under the site root from what follows the base URL, whatever follows it.
C8_AbsoluteFromRoot ==
  (call.active /\ call.is_absolute_url /\ Cleaned(call.href) # <<>>) =>
    call.potential_paths = Candidates(<<>>, lstrip(Cleaned(call.href), "/"))

\* C9: every http or https href that starts with the base URL gets exactly
\* one 'absolute URL' warning and costs 2, whatever follows the base URL.
C9_AbsoluteAlwaysWarned ==
  [][ (LinkStep /\ IsInternalAbsolute(CurHref)) =>
        /\ CountKind(warnings', "AbsoluteUrl", RelStr(CurFile)) =
             CountKind(warnings, "AbsoluteUrl", RelStr(CurFile)) + 1
        /\ score' <= score - 2 ]_vars

\* C10: a href that starts with one of the six ignored prefixes leaves
\* dead links, warnings, score, external links and inbound counts unchanged.
C10_IgnoredLeavesAudit ==
  [][ (LinkStep /\ IsIgnored(CurHref)) =>
        /\ internal_pages' = internal_pages
        /\ external_links' = external_links
        /\ dead_links' = dead_links
        /\ warnings' = warnings
        /\ score' = score ]_vars

\* C10 witness: the crawl has just passed an ignored href
C10_Witness ==
  /\ pc = "parse_content"
  /\ li > 1
  /\ IsIgnored(site.pages[CurFile].hrefs[li - 1])
  /\ dead_links = <<>>
  /\ external_links = {}

\* the verdict of a call of check_url that has returned
Finished(f) == f.state \in {"done", "collected"}
IsAlive(f) == Finished(f) /\ f.status > 0 /\ f.status < 400
IsDead(f) == Finished(f) /\ f.status >= 400
IsUnreachable(f) == Finished(f) /\ f.status = 0

\* the request got a response, and with a status below 400 / of 400 or more
Answered(r) == ~r.raised /\ r.status_code >= 0
Succeeded(r) == Answered(r) /\ r.status_code < 400
Failed(r) == Answered(r) /\ r.status_code >= 400

\* C11: every call of check_url sends HEAD first; it sends GET exactly when
\* the HEAD response has a status of 400 or more, and no more than once; the
\* URL is dead, with the status code of the GET response, only when both
\* responses have a status of 400 or more, and is alive when the HEAD
\* response or the GET response has a status below 400.
C11_HeadThenGet ==
  \A i \in 1..Len(futures) :
    LET f == futures[i]
        n == Len(f.requests)
    IN  /\ f.state = "pending" <=> n = 0
        /\ n >= 1 => f.requests[1].method = "HEAD"
        /\ n <= 2
        /\ n = 2 => f.requests[2].method = "GET"
        /\ n = 2 <=> (n >= 1 /\ Failed(f.requests[1]))
        /\ IsDead(f) =>
              /\ n = 2
              /\ Failed(f.requests[1])
              /\ Failed(f.requests[2])
              /\ f.status = f.requests[2].status_code
        /\ (Finished(f) /\ (Succeeded(f.requests[1])
                             \/ (n = 2 /\ Succeeded(f.requests[2])))) => IsAlive(f)
        /\ (f.state = "collected" /\ IsDead(f)) =>
              \E k \in 1..Len(dead_links) :
                dead_links[k] = [source |-> EXTERNAL,
                                 href |-> status_text(f.url, f.requests[2].status_code)]

\* C11 witness: a URL answered 404 to HEAD and 500 to GET and is listed as
\* dead with 500, while another one answered 404 to HEAD and 200 to GET
C11_Witness ==
  /\ \E i \in 1..Len(futures) :
       /\ futures[i].state = "collected"
       /\ Len(futures[i].requests) = 2
       /\ futures[i].requests[1].status_code = 404
       /\ futures[i].requests[2].status_code = 500
       /\ futures[i].status = 500
       /\ \E k \in 1..Len(dead_links) :
            dead_links[k] = [source |-> EXTERNAL,
                             href |-> status_text(futures[i].url, 500)]
  /\ \E i \in 1..Len(futures) :
       /\ futures[i].state = "collected"
       /\ Len(futures[i].requests) = 2
       /\ Failed(futures[i].requests[1])
       /\ futures[i].requests[2].status_code = 200
       /\ futures[i].status = 200

\* one of the requests of the call raised
HasRaised(f) == \E k \in 1..Len(f.requests) : f.requests[k].raised

\* C12: a call of check_url whose HEAD or GET request raised returns the
\* verdict 0, which no response brings about, and no other call does; from
\* the moment a request has raised, the run still reaches the end of the
\* report with the verdict of every URL collected.
C12_ExceptionIsUnreachable ==
  /\ [](\A i \in 1..Len(futures) :
          /\ HasRaised(futures[i]) => IsUnreachable(futures[i])
          /\ IsUnreachable(futures[i]) => HasRaised(futures[i])
          /\ IsUnreachable(futures[i]) => futures[i].status \notin HTTP_STATUSES)
  /\ ((\E i \in 1..Len(futures) : HasRaised(futures[i]))
        ~> (/\ pc = "done"
            /\ \A i \in 1..Len(futures) :
                 futures[i].state = "collected" /\ futures[i].status >= 0))

\* C12 witness: the report is out after the GET of one URL raised and
\* another URL was found alive
C12_Witness ==
  /\ pc = "done"
  /\ \E i, j \in 1..Len(futures) :
       /\ Len(futures[i].requests) = 2
       /\ futures[i].requests[2].raised
       /\ futures[i].status = 0
       /\ futures[j].status = 200
       /\ ~HasRaised(futures[j])

\* the entries of dead_links that check_external_links_async wrote
ExternalEntries == SelectSeq(dead_links, LAMBDA d : d.source = EXTERNAL)
InternalEntries == SelectSeq(dead_links, LAMBDA d : d.source # EXTERNAL)

\* the calls of check_url that returned a dead or unreachable verdict
BadVerdicts == {i \in 1..Len(futures) : IsDead(futures[i]) \/ IsUnreachable(futures[i])}

\* the entries of dead_links that are about the URL u
EntriesAbout(u) ==
  {k \in 1..Len(dead_links) :
     /\ dead_links[k].source = EXTERNAL
     /\ startswith(dead_links[k].href, u \o <<" ", "(">>)}

\* C13: once check_external_links_async has returned, dead_links holds as
\* many 'External' entries as there are URLs with a dead or unreachable
\* verdict, one for each of them and none for an alive URL, and the score
\* is the score of the crawl less 5 for each of these verdicts.
C13_ExternalFindings ==
  Returned =>
    /\ Len(ExternalEntries) = Cardinality(BadVerdicts)
    /\ \A i \in 1..Len(futures) :
         Cardinality(EntriesAbout(futures[i].url)) = (IF i \in BadVerdicts THEN 1 ELSE 0)
    /\ score = InitialScore - SumWarnings(warnings) - 10 * Len(InternalEntries)
                  - 5 * Cardinality(BadVerdicts)

\* C13 witness: of two verdicts one is alive and one unreachable; one entry
\* was written, for the unreachable URL, and the score went down by 5
C13_Witness ==
  /\ Returned
  /\ \E i, j \in 1..Len(futures) :
       /\ IsAlive(futures[i])
       /\ IsUnreachable(futures[j])
       /\ ExternalEntries =
            <<[source |-> EXTERNAL, href |-> status_text(futures[j].url, 0)]>>
  /\ score = InitialScore - SumWarnings(warnings) - 10 * Len(InternalEntries) - 5

\* analyze_graph or print_report has started, or is the next statement
Aggregating == pc \in {"analyze_graph", "print_report", "done"}

\* C14: analyze_graph and print_report start only when every submitted call
\* of check_url has returned, with a status below 400, a status of 400 or
\* more or a connection error, and the main thread has read its result; no
\* request is then in flight.
C14_JoinBeforeAnalysis ==
  Aggregating =>
    \A i \in 1..Len(futures) :
      /\ futures[i].state = "collected"
      /\ IsAlive(futures[i]) \/ IsDead(futures[i]) \/ IsUnreachable(futures[i])
      /\ \A k \in 1..Len(futures[i].requests) :
           Answered(futures[i].requests[k]) \/ futures[i].requests[k].raised

\* C14 witness: analyze_graph is about to start after two calls, one ending
\* in a status of 400 or more and one in a connection error, were collected
\* in the reverse of the order they were submitted in
C14_Witness ==
  /\ pc = "analyze_graph"
  /\ Len(futures) = 2
  /\ IsDead(futures[1])
  /\ IsUnreachable(futures[2])
  /\ Len(ExternalEntries) = 2
  /\ ExternalEntries[1].href = status_text(futures[2].url, 0)

\* the statement parse_content is at raises: open() on a file that cannot
\* be read, or urlparse on the link at hand
RaisesNow ==
  /\ pc = "parse_content"
  /\ \/ li = 0 /\ ~site.pages[CurFile].readable
     \/ li > 0 /\ Raises(CurHref)

\* what parse_content leaves behind for the file f when it has gone through
\* it: the heading and schema results, and the external links it met
WasProcessed(f) ==
  LET doc == site.pages[f]
      page == internal_pages[AbsStr(f)]
  IN  doc.readable =>
        /\ page.h1_count = doc.h1s
        /\ CountKind(warnings, "MissingH1", page.rel_path) = (IF doc.h1s = 0 THEN 1 ELSE 0)
        /\ page.has_schema = (doc.schemas > 0)
        /\ CountKind(warnings, "MissingSchema", page.rel_path) =
             (IF doc.schemas = 0 THEN 1 ELSE 0)
        /\ \A o \in Occurrences :
             (o[1] = f /\ IsExternal(HrefAt(o))) => HrefAt(o) \in external_links

\* C15: whenever a statement of parse_content raises for a file, the run
\* goes on to the end of the report, through the external checks and the
\* orphan analysis, and every file of files_to_scan, the ones after the
\* failing one included, has been gone through.
C15_FileFailureIsolated ==
  RaisesNow ~>
    (/\ pc = "done"
     /\ final_score >= 0
     /\ \A i \in 1..Len(futures) : futures[i].state = "collected"
     /\ \A k \in 1..Len(files_to_scan) : WasProcessed(files_to_scan[k]))

\* C15 witness: the report is out; the first file raised, on open() or on
\* one of its links, and an external link of the file after it was checked
C15_Witness ==
  /\ pc = "done"
  /\ Len(files_to_scan) >= 2
  /\ LET f == files_to_scan[1]
         g == files_to_scan[2]
     IN  /\ \/ ~site.pages[f].readable
            \/ \E j \in 1..Len(site.pages[f].hrefs) : Raises(site.pages[f].hrefs[j])
         /\ \E j \in 1..Len(site.pages[g].hrefs) :
              /\ IsExternal(site.pages[g].hrefs[j])
              /\ FuturesOf(site.pages[g].hrefs[j]) # {}

\* the warnings the step adds to the list
NewWarnings == SubSeq(warnings', Len(warnings) + 1, Len(warnings'))

KindCount(ws, kind) == Cardinality({i \in 1..Len(ws) : ws[i].kind = kind})

EndsInHtml(hc) == endswith(hc, DOT_HTML) \/ endswith(hc, DOT_HTM)

\* C16: for a link handed to check_internal_link with a non-empty cleaned
\* href, whether or not it resolves, the step adds one '.html extension'
\* warning exactly when the cleaned href ends in .html or .htm, and one
\* 'relative path' warning exactly when the href does not start with '/'
\* and the link is not an absolute link into the site; each costs 2, so
\* that a relative href ending in .html adds these two warnings and costs 4.
C16_StructuralWarnings ==
  [][ (LinkStep /\ call'.active /\ Cleaned(call'.href) # <<>>) =>
        LET hc == Cleaned(call'.href)
            html == IF EndsInHtml(hc) THEN 1 ELSE 0
            rel == IF ~startswith(CurHref, <<"/">>) /\ ~IsInternalAbsolute(CurHref)
                     THEN 1 ELSE 0
            abs == IF IsInternalAbsolute(CurHref) THEN 1 ELSE 0
            dead == IF Existing(CandidatesOf(CurFile, hc)) = {} THEN 1 ELSE 0
        IN  /\ KindCount(NewWarnings, "HtmlExtension") = html
            /\ KindCount(NewWarnings, "RelativePath") = rel
            /\ Len(NewWarnings) = abs + html + rel
            /\ \A k \in 1..Len(NewWarnings) :
                 /\ NewWarnings[k].source = RelStr(CurFile)
                 /\ NewWarnings[k].href = call'.href
            /\ score' = score - 2 * html - 2 * rel - 2 * abs - 10 * dead
            /\ (html = 1 /\ rel = 1) =>
                 /\ NewWarnings = << [source |-> RelStr(CurFile), kind |-> "HtmlExtension",
                                      href |-> CurHref],
                                     [source |-> RelStr(CurFile), kind |-> "RelativePath",
                                      href |-> CurHref] >>
                 /\ score' = score - 4 - 10 * dead ]_vars

\* C16 witness: the relative link a.html, which resolves, has just added
\* the two warnings and nothing else
C16_Witness ==
  /\ call.active
  /\ call.href = H_A_HTML
  /\ call.target_found
  /\ Len(warnings) >= 2
  /\ warnings[Len(warnings) - 1] =
       [source |-> RelStr(call.source_file), kind |-> "HtmlExtension", href |-> H_A_HTML]
  /\ warnings[Len(warnings)] =
       [source |-> RelStr(call.source_file), kind |-> "RelativePath", href |-> H_A_HTML]
  /\ dead_links = <<>>

\* where the crawl first meets the external URL u: the index of the file
\* in files_to_scan and the index of the link in the file
FileIndex(f) == CHOOSE k \in 1..Len(files_to_scan) : files_to_scan[k] = f

Earlier(o1, o2) ==
  \/ FileIndex(o1[1]) < FileIndex(o2[1])
  \/ o1[1] = o2[1] /\ o1[2] < o2[2]

FirstSeen(u) ==
  LET occ == {o \in Occurrences : HrefAt(o) = u}
  IN  CHOOSE o \in occ : \A o2 \in occ : o2 = o \/ Earlier(o, o2)

\* C17: in the report's list of dead links the entries of external URLs
\* stand in the order in which the crawl met these URLs, whatever the order
\* in which their checks completed.
C17_DiscoveryOrder ==
  pc = "done" =>
    \A u, v \in ExternalUrls :
      \A k \in EntriesAbout(u), l \in EntriesAbout(v) :
        k < l => Earlier(FirstSeen(u), FirstSeen(v))

\* the findings and the score, and the set the checks are made from
accumulators == <<external_links, dead_links, warnings, score>>

\* the step is one of a worker thread: the call i of check_url starts,
\* sends a request or returns
WorkerStepOf(i) ==
  /\ futures[i].state \in {"pending", "head", "get"}
  /\ futures'[i] # futures[i]

\* the step is one of the main thread: it takes the result of the call i
MainStepOf(i) ==
  /\ futures[i].state = "done"
  /\ futures'[i] = [futures[i] EXCEPT !.state = "collected"]

\* C18: while the external checks run, a step of a worker thread leaves
\* external_links, dead_links, warnings and score as they are and touches
\* only its own call; what a call returns, its url and status, is never
\* changed afterwards; and every step that changes dead_links or score is
\* the main thread taking the result of a finished call.
C18_WorkersOnlyReturn ==
  [][ (pc = "as_completed" /\ pc' = "as_completed") =>
        /\ Len(futures') = Len(futures)
        /\ \A i \in 1..Len(futures) :
             /\ WorkerStepOf(i) =>
                  /\ accumulators' = accumulators
                  /\ \A j \in 1..Len(futures) : j # i => futures'[j] = futures[j]
                  /\ futures'[i].url = futures[i].url
             /\ Finished(futures[i]) =>
                  /\ futures'[i].url = futures[i].url
                  /\ futures'[i].status = futures[i].status
                  /\ futures'[i].requests = futures[i].requests
        /\ accumulators' # accumulators =>
             /\ external_links' = external_links
             /\ warnings' = warnings
             /\ \E i \in 1..Len(futures) :
                  /\ MainStepOf(i)
                  /\ \A j \in 1..Len(futures) : j # i => futures'[j] = futures[j] ]_vars

\* C18 witness: a worker has returned a dead verdict that the main thread
\* has not taken yet, so that no finding exists for it, while another
\* worker has a GET request in flight
C18_Witness ==
  /\ pc = "as_completed"
  /\ \E i, j \in 1..Len(futures) :
       /\ futures[i].state = "done"
       /\ IsDead(futures[i])
       /\ futures[j].state = "get"
  /\ ExternalEntries = <<>>
  /\ score = InitialScore - SumWarnings(warnings) - 10 * Len(InternalEntries)

\* the calls of check_url that have started and have not returned
InFlight == {i \in 1..Len(futures) : futures[i].state \notin {"pending", "done", "collected"}}
Waiting == {i \in 1..Len(futures) : futures[i].state = "pending"}

\* C19: at every moment at most 10 calls of check_url are in flight,
\* however many were submitted, and a call starts only when fewer than 10
\* are: the others wait for a worker to return.
C19_AtMostTenInFlight ==
  /\ [](Cardinality(InFlight) <= 10)
  /\ [][ Cardinality(Waiting') < Cardinality(Waiting) => Cardinality(InFlight) < 10 ]_vars

\* C19 witness: more than 10 URLs were submitted; 10 calls are in flight and
\* the next one waits
C19_Witness ==
  /\ Len(futures) > 10
  /\ Cardinality(InFlight) = 10
  /\ Waiting # {}

\* the links of the page f that the crawl resolved to f itself
SelfLinks(f) == {o \in Occurrences : o[1] = f /\ TargetOf(f, HrefAt(o)) = AbsStr(f)}

\* the links of other pages resolved to f
LinksFromOthers(f) == {o \in Occurrences : o[1] # f /\ TargetOf(o[1], HrefAt(o)) = AbsStr(f)}

\* the file name of f is not index.html
NotIndex(f) == f[Len(f)] # INDEX_HTML

\* C20: a link of a page that resolves to the page itself adds 1 to the
\* page's own inbound_count; at the end of the run a page not named
\* index.html that has such a link has an inbound_count of 1 or more, the
\* number of its self-links when no other page links to it, and no orphan
\* warning.
C20_SelfLinksCount ==
  /\ [][ (LinkStep /\ call'.active /\ call'.target_found
           /\ AbsStr(call'.target_file) = AbsStr(CurFile)) =>
          internal_pages'[AbsStr(CurFile)].inbound_count =
            internal_pages[AbsStr(CurFile)].inbound_count + 1 ]_vars
  /\ [](pc = "done" =>
          \A f \in DOMAIN site.pages :
            (NotIndex(f) /\ SelfLinks(f) # {}) =>
              /\ internal_pages[AbsStr(f)].inbound_count >= 1
              /\ LinksFromOthers(f) = {} =>
                   internal_pages[AbsStr(f)].inbound_count = Cardinality(SelfLinks(f))
              /\ CountKind(warnings, "Orphan", RelStr(f)) = 0)

\* C20 witness: the run is over; a page not named index.html has one link
\* to itself and none from another page, an inbound_count of 1 and no
\* orphan warning
C20_Witness ==
  /\ pc = "done"
  /\ \E f \in DOMAIN site.pages :
       /\ NotIndex(f)
       /\ Cardinality(SelfLinks(f)) = 1
       /\ LinksFromOthers(f) = {}
       /\ internal_pages[AbsStr(f)].inbound_count = 1
       /\ CountKind(warnings, "Orphan", RelStr(f)) = 0

\* the path c, written without '..', names a file of the tree
NamesFile(c) == c \in site.fs

NoDotDot(cands) ==
  \A i \in 1..Len(cands) : \A k \in 1..Len(cands[i]) : cands[i][k] # <<".", ".">>

\* the first candidate that names a file of the tree, 0 when none does
FirstNamed(cands) ==
  IF \E i \in 1..Len(cands) : NamesFile(cands[i])
    THEN Least({i \in 1..Len(cands) : NamesFile(cands[i])})
    ELSE 0

\* the page records scan_files builds: one for each file it keeps
ScannedKeys == {AbsStr(f) : f \in {g \in site.fs : is_scanned(g)}}

\* C21: when the first existing candidate of an internal link is a regular
\* file that has no page record, a file that is not HTML or an HTML file
\* the scan leaves out, the step adds no dead link, takes nothing from the
\* score but the 2 of each warning, and changes no inbound_count; the page
\* records are those of the files scan_files kept and link resolution
\* never adds one.
C21_NonPageTarget ==
  /\ [][ (LinkStep /\ call'.active /\ Cleaned(call'.href) # <<>>) =>
          LET cands == CandidatesOf(CurFile, Cleaned(call'.href))
              n == FirstNamed(cands)
          IN  /\ (NoDotDot(cands) /\ n # 0 /\ AbsStr(cands[n]) \notin ScannedKeys) =>
                   /\ call'.target_found
                   /\ call'.target_file = cands[n]
                   /\ dead_links' = dead_links
                   /\ internal_pages' = internal_pages
                   /\ score' = score - 2 * (Len(warnings') - Len(warnings))
              /\ (call'.target_found
                   /\ AbsStr(call'.target_file) \notin DOMAIN internal_pages) =>
                   /\ dead_links' = dead_links
                   /\ internal_pages' = internal_pages
                   /\ score' = score - 2 * (Len(warnings') - Len(warnings)) ]_vars
  /\ [][ pc # "scan_files" => DOMAIN internal_pages' = DOMAIN internal_pages ]_vars
  /\ [](pc # "scan_files" => DOMAIN internal_pages = ScannedKeys)

\* C21 witness: the last link resolved to an HTML file that the scan left
\* out; there is no dead link and no page has an inbound link
C21_Witness ==
  /\ call.active
  /\ call.target_found
  /\ call.target_file \in site.fs
  /\ endswith(call.target_file[Len(call.target_file)], DOT_HTML)
  /\ ~is_scanned(call.target_file)
  /\ dead_links = <<>>
  /\ \A key \in DOMAIN internal_pages : internal_pages[key].inbound_count = 0
  /\ internal_pages # <<>>


====
